---- MODULE Spec2Model ----
(***************************************************************************)
(* A model of the element list of alva                                     *)
(* (src/container/element-list/element-list.tsx): the tree projection, the *)
(* drag-and-drop handlers, the selection / rename handlers and the         *)
(* component's life cycle.  The view store and the element model the       *)
(* handlers call (Store.ViewStore, Model.Element, the commands) are not    *)
(* part of that file; they are modelled from the specification's words and *)
(* marked so in the model map.                                             *)
(***************************************************************************)
EXTENDS Integers, Sequences, FiniteSets, TLC

(***************************************************************************)
(* Bounds.                                                                 *)
(***************************************************************************)
\* The display names an edit may type: 1..NumNames.
NumNames == 2
\* The drag previews a run may leave attached to document.body unreferenced.
MaxStray == 1

None == "none"
\* element.getIndex() of an element in no container; handleDrop tests for it.
NoIndex == -1
NoName == "none"
NameOf(i) == << "n1", "n2", "n3", "n4" >>[i]
Names == { NameOf(i) : i \in 1..NumNames }

(***************************************************************************)
(* The document: a page root with a named slot, a default slot and an     *)
(* unbound named slot; a box with a default slot; two leaves.              *)
(***************************************************************************)
Root == "root"
Elements == {"root", "box", "a", "b"}
Contents == {"root.head", "root.kids", "box.kids"}

\* Types.SlotType
SlotChildren == "children"
SlotProperty == "property"

\* pattern.getSlots(): the slots of an element's pattern, in pattern order.
PatternSlots(e) ==
    CASE e = "root" -> << [id |-> "head", type |-> SlotProperty],
                          [id |-> "kids", type |-> SlotChildren],
                          [id |-> "foot", type |-> SlotProperty] >>
      [] e = "box"  -> << [id |-> "kids", type |-> SlotChildren] >>
      [] OTHER      -> << >>

\* element.getContentBySlotId(slotId): None when the slot has no content.
GetContentBySlotId(e, slotId) ==
    CASE e = "root" /\ slotId = "head" -> "root.head"
      [] e = "root" /\ slotId = "kids" -> "root.kids"
      [] e = "box"  /\ slotId = "kids" -> "box.kids"
      [] OTHER -> None

\* element.getContentBySlotType(type): the content of the first slot of the type.
GetContentBySlotType(e, type) ==
    LET idx == { i \in DOMAIN PatternSlots(e) : PatternSlots(e)[i].type = type }
    IN  IF idx = {} THEN None
        ELSE LET i == CHOOSE i \in idx : \A j \in idx : i <= j
             IN  GetContentBySlotId(e, PatternSlots(e)[i].id)

\* The element a content belongs to.
ContentOwner(c) ==
    CASE c = "root.head" -> "root"
      [] c = "root.kids" -> "root"
      [] c = "box.kids"  -> "box"

(***************************************************************************)
(* State.                                                                  *)
(***************************************************************************)
VARIABLES
    elementsOf,      \* Content.getElements(): content -> sequence of elements
    name,            \* element -> its committed display name
    editedName,      \* the name typed into the element being renamed
    preEditName,     \* history: the name the renamed element had when the edit began
    selected,        \* the elements whose selected flag is set
    nameEditable,    \* the elements whose nameEditable flag is set
    highlighted,     \* the elements whose highlighted flag is set
    placeholderHighlighted, \* the elements whose placeholder highlight is set
    dragged,         \* the elements whose dragged flag is set
    open,            \* the elements whose explicit open flag is set
    dragging,        \* this.state.dragging
    dragImg,         \* this.dragImg: "unset", "attached" (to document.body), "detached"
    phase,           \* "constructed", "mounted", "unmounted"
    windowListeners, \* the listeners registered on window: <<event type, listener>>
    ref,             \* this.ref is set
    unresolved,      \* the elements whose pattern cannot be resolved
    strayImgs,       \* drag previews attached to document.body that this.dragImg lost
    submitted,       \* the commands the last event handed to store.execute
    last             \* the last event: [ev, el, info]

vars == << elementsOf, name, editedName, preEditName, selected, nameEditable,
           highlighted, placeholderHighlighted, dragged, open, dragging, dragImg,
           phase, windowListeners, ref, unresolved, strayImgs, submitted, last >>

\* The mutable state as one record, so that a handler is a function of it and
\* an event that runs several handlers composes them.
Cur ==
    [ elementsOf |-> elementsOf, name |-> name, editedName |-> editedName,
      preEditName |-> preEditName, selected |-> selected,
      nameEditable |-> nameEditable, highlighted |-> highlighted,
      placeholderHighlighted |-> placeholderHighlighted, dragged |-> dragged,
      open |-> open, dragging |-> dragging, dragImg |-> dragImg, phase |-> phase,
      windowListeners |-> windowListeners, ref |-> ref, unresolved |-> unresolved, strayImgs |-> strayImgs,
      submitted |-> << >>, stopped |-> FALSE, prevented |-> FALSE,
      dropEffect |-> None ]

\* The event is over: the record becomes the next state.
Apply(s, ev) ==
    /\ elementsOf' = s.elementsOf
    /\ name' = s.name
    /\ editedName' = s.editedName
    /\ preEditName' = s.preEditName
    /\ selected' = s.selected
    /\ nameEditable' = s.nameEditable
    /\ highlighted' = s.highlighted
    /\ placeholderHighlighted' = s.placeholderHighlighted
    /\ dragged' = s.dragged
    /\ open' = s.open
    /\ dragging' = s.dragging
    /\ dragImg' = s.dragImg
    /\ phase' = s.phase
    /\ windowListeners' = s.windowListeners
    /\ ref' = s.ref
    /\ unresolved' = s.unresolved
    /\ strayImgs' = s.strayImgs
    /\ submitted' = s.submitted
    /\ last' = ev

(***************************************************************************)
(* The element model (Model.Element, Model.ElementContent).                *)
(***************************************************************************)
Range(seq) == { seq[i] : i \in DOMAIN seq }

\* element.getContainer(): the content that holds the element, or None.
GetContainer(s, e) ==
    LET cs == { c \in Contents : e \in Range(s.elementsOf[c]) }
    IN  IF cs = {} THEN None ELSE CHOOSE c \in cs : TRUE

\* element.getParent(): the element that owns the container, or None.
GetParent(s, e) ==
    IF GetContainer(s, e) = None THEN None ELSE ContentOwner(GetContainer(s, e))

\* element.getIndex(): the 0-based position in the container.
GetIndex(s, e) ==
    IF GetContainer(s, e) = None THEN NoIndex
    ELSE LET seq == s.elementsOf[GetContainer(s, e)]
         IN  (CHOOSE i \in DOMAIN seq : seq[i] = e) - 1

\* The elements directly below an element, over all its contents.
ChildrenOf(s, e) ==
    UNION { Range(s.elementsOf[c]) : c \in { k \in Contents : ContentOwner(k) = e } }

\* element.getDescendants(): the strict descendants.
RECURSIVE DescendantsUpTo(_, _, _)
DescendantsUpTo(s, e, n) ==
    IF n = 0 THEN {}
    ELSE ChildrenOf(s, e) \cup
         UNION { DescendantsUpTo(s, k, n - 1) : k \in ChildrenOf(s, e) }

GetDescendants(s, e) == DescendantsUpTo(s, e, Cardinality(Elements))

\* project.getElements(): the elements of the project, the root and every
\* element some content holds.
ProjectElements(s) == { e \in Elements : e = Root \/ GetContainer(s, e) # None }

\* store.getElementById(id)
GetElementById(s, id) == IF id \in ProjectElements(s) THEN id ELSE None

\* store.getContentById(id)
GetContentById(s, id) == IF id \in Contents THEN id ELSE None

\* element.accepts(child): an element takes no child into itself, into one of
\* the child's own descendants, or without a default slot to hold it.
Accepts(s, target, child) ==
    /\ target # child
    /\ target \notin GetDescendants(s, child)
    /\ GetContentBySlotType(target, SlotChildren) # None

\* element.getName() and element.getName({unedited: true})
GetName(s, e) == IF e \in s.nameEditable THEN s.editedName ELSE s.name[e]
GetUneditedName(s, e) == s.name[e]

\* element.setName(name)
SetName(s, e, n) ==
    IF e \in s.nameEditable THEN [s EXCEPT !.editedName = n]
    ELSE [s EXCEPT !.name[e] = n]

(***************************************************************************)
(* The view store (Store.ViewStore).                                       *)
(***************************************************************************)
TheOne(set) == IF set = {} THEN None ELSE CHOOSE x \in set : TRUE

\* store.getSelectedElement(), store.getNameEditableElement()
GetSelectedElement(s) == TheOne(s.selected \cap ProjectElements(s))
GetNameEditableElement(s) == TheOne(s.nameEditable \cap ProjectElements(s))

\* element.setNameEditable(false): the edit ends and the typed name stays.
EndEdits(s) ==
    [s EXCEPT !.name = [x \in Elements |->
                           IF x \in s.nameEditable THEN s.editedName ELSE s.name[x]],
              !.nameEditable = {}, !.editedName = NoName, !.preEditName = NoName]

\* store.setNameEditableElement(element?): the new holder replaces the old one;
\* an edit begins on the element's name.
SetNameEditableElement(s, e) ==
    IF e = None THEN EndEdits(s)
    ELSE IF e \in s.nameEditable THEN s
    ELSE [EndEdits(s) EXCEPT !.nameEditable = {e}, !.editedName = s.name[e],
                             !.preEditName = s.name[e]]

\* store.setSelectedElement(element): the new selection replaces the old
\* selection and an edit of another element.
SetSelectedElement(s, e) ==
    LET t == IF s.nameEditable \subseteq {e} THEN s ELSE SetNameEditableElement(s, None)
    IN  [t EXCEPT !.selected = {e}]

\* store.execute(new Model.ElementNameCommand(element, name))
ExecuteName(s, e, n) ==
    LET c == [cmd |-> "rename", el |-> e, name |-> n, content |-> None,
              index |-> NoIndex]
    IN  [s EXCEPT !.name[e] = n, !.submitted = Append(s.submitted, c)]

(***************************************************************************)
(* Event targets.  A target is a node of the rendered list: the part of    *)
(* an element's row that was hit and the identity the row carries, which   *)
(* is an element's for an element row and a content's for a slot row.      *)
(***************************************************************************)
Parts == {"label", "icon", "body", "placeholder"}
DragRootTarget == [id |-> Root, part |-> "dragroot"]
OutsideTarget == [id |-> None, part |-> "outside"]
Targets(parts) ==
    [id : Elements \cup Contents, part : parts] \cup {DragRootTarget, OutsideTarget}

\* above(target, `[${ElementAnchors.label}]`), above(target, `svg[${ElementAnchors.icon}]`)
AboveLabel(t) == t.part \in {"label", "icon"}
AboveIcon(t) == t.part = "icon"
\* target.getAttribute(ElementAnchors.placeholder) === 'true'
IsPlaceholder(t) == t.part = "placeholder"
\* target.getAttribute('data-drag-root')
IsDragRoot(t) == t.part = "dragroot"

\* elementFromTarget(target, {sibling})
elementFromTarget(s, t, sibling) ==
    IF t.id = None THEN None
    ELSE IF GetElementById(s, t.id) = None THEN None
    ELSE IF sibling THEN GetParent(s, t.id) ELSE t.id

(***************************************************************************)
(* Life cycle.                                                             *)
(***************************************************************************)
KeyDownListener == "globalKeyDownListener"
DragEndListener == "globalDragEndListener"
\* this.globalDropListener = this.globalDragEndListener
DropListener == DragEndListener

componentDidMount(s) ==
    [s EXCEPT !.phase = "mounted",
              !.ref = TRUE,
              !.windowListeners = s.windowListeners \cup
                  { <<"keydown", KeyDownListener>>, <<"drop", DropListener>>,
                    <<"dragend", DragEndListener>> }]

componentWillUnmount(s) ==
    [s EXCEPT !.phase = "unmounted",
              !.ref = FALSE,
              !.windowListeners = ((s.windowListeners \ { <<"drop", DropListener>> })
                                      \ { <<"drop", DragEndListener>> })
                                      \ { <<"keydown", KeyDownListener>> }]

(***************************************************************************)
(* Selection and rename handlers.                                          *)
(***************************************************************************)
handleBlur(s) ==
    LET editableElement == GetNameEditableElement(s)
    IN  IF editableElement # None
        THEN SetNameEditableElement(
                 ExecuteName(s, editableElement, GetName(s, editableElement)), None)
        ELSE s

\* handleClick setting the element's selected flag itself, not through the store.
handleClick_SetsFlag(s, t) ==
    LET element == elementFromTarget(s, t, FALSE)
    IN  IF IsDragRoot(t) THEN s
        ELSE IF element = None THEN s
        ELSE IF AboveIcon(t)
        THEN [s EXCEPT !.stopped = TRUE,
                       !.open = IF element \in s.open THEN s.open \ {element}
                                ELSE s.open \cup {element}]
        ELSE LET s0 == [s EXCEPT !.stopped = TRUE]
                 s1 == IF GetSelectedElement(s0) = element /\ AboveLabel(t)
                       THEN SetNameEditableElement(s0, element) ELSE s0
             IN  IF GetSelectedElement(s1) # element
                 THEN [s1 EXCEPT !.selected = s1.selected \cup {element}] ELSE s1


handleClick(s, t) ==
    LET element == elementFromTarget(s, t, FALSE)
    IN  IF IsDragRoot(t) THEN s
        ELSE IF element = None THEN s
        ELSE IF AboveIcon(t)
        THEN [s EXCEPT !.stopped = TRUE,
                       !.open = IF element \in s.open THEN s.open \ {element}
                                ELSE s.open \cup {element}]
        ELSE LET s0 == [s EXCEPT !.stopped = TRUE]
                 s1 == IF GetSelectedElement(s0) = element /\ AboveLabel(t)
                       THEN SetNameEditableElement(s0, element) ELSE s0
             IN  IF GetSelectedElement(s1) # element
                 THEN SetSelectedElement(s1, element) ELSE s1

KeyEnter == 13
KeyEscape == 27
\* Any other key.
KeyOther == 65
Keys == {KeyEnter, KeyEscape, KeyOther}
\* Where a key event starts: document.body, a node inside the list, another node.
Origins == {"body", "inside", "elsewhere"}

\* handleKeyDown that leaves Enter to propagate to the window's listener.
handleKeyDown_EnterPropagates(s, origin, key) ==
    LET contains == s.ref /\ origin = "inside"
    IN  IF origin # "body" /\ ~contains THEN s
        ELSE IF key = KeyEnter
        THEN LET editableElement == GetNameEditableElement(s)
                 selectedElement == GetSelectedElement(s)
             IN  IF editableElement # None
                 THEN SetNameEditableElement(
                          ExecuteName(s, editableElement, GetName(s, editableElement)),
                          None)
                 ELSE SetNameEditableElement(s, selectedElement)
        ELSE IF key = KeyEscape
        THEN LET s0 == [s EXCEPT !.stopped = TRUE]
                 editableElement == GetNameEditableElement(s0)
             IN  IF editableElement # None
                 THEN LET n == GetUneditedName(s0, editableElement)
                      IN  SetName(SetNameEditableElement(s0, None), editableElement, n)
                 ELSE s0
        ELSE s

\* handleKeyDown that reads the edited name, not the unedited one, on Escape.
handleKeyDown_EscapeKeepsEdit(s, origin, key) ==
    LET contains == s.ref /\ origin = "inside"
    IN  IF origin # "body" /\ ~contains THEN s
        ELSE IF key = KeyEnter
        THEN LET s0 == [s EXCEPT !.stopped = TRUE]
                 editableElement == GetNameEditableElement(s0)
                 selectedElement == GetSelectedElement(s0)
             IN  IF editableElement # None
                 THEN SetNameEditableElement(
                          ExecuteName(s0, editableElement, GetName(s0, editableElement)),
                          None)
                 ELSE SetNameEditableElement(s0, selectedElement)
        ELSE IF key = KeyEscape
        THEN LET s0 == [s EXCEPT !.stopped = TRUE]
                 editableElement == GetNameEditableElement(s0)
             IN  IF editableElement # None
                 THEN LET n == GetName(s0, editableElement)
                      IN  SetName(SetNameEditableElement(s0, None), editableElement, n)
                 ELSE s0
        ELSE s


\* handleKeyDown without the test of the event's origin.
handleKeyDown_NoScope(s, origin, key) ==
    IF key = KeyEnter
    THEN LET s0 == [s EXCEPT !.stopped = TRUE]
             editableElement == GetNameEditableElement(s0)
             selectedElement == GetSelectedElement(s0)
         IN  IF editableElement # None
             THEN SetNameEditableElement(
                      ExecuteName(s0, editableElement, GetName(s0, editableElement)),
                      None)
             ELSE SetNameEditableElement(s0, selectedElement)
    ELSE IF key = KeyEscape
    THEN LET s0 == [s EXCEPT !.stopped = TRUE]
             editableElement == GetNameEditableElement(s0)
         IN  IF editableElement # None
             THEN LET n == GetUneditedName(s0, editableElement)
                  IN  SetName(SetNameEditableElement(s0, None), editableElement, n)
             ELSE s0
    ELSE s

handleKeyDown(s, origin, key) ==
    LET contains == s.ref /\ origin = "inside"
    IN  IF origin # "body" /\ ~contains THEN s
        ELSE IF key = KeyEnter
        THEN LET s0 == [s EXCEPT !.stopped = TRUE]
                 editableElement == GetNameEditableElement(s0)
                 selectedElement == GetSelectedElement(s0)
             IN  IF editableElement # None
                 THEN SetNameEditableElement(
                          ExecuteName(s0, editableElement, GetName(s0, editableElement)),
                          None)
                 ELSE SetNameEditableElement(s0, selectedElement)
        ELSE IF key = KeyEscape
        THEN LET s0 == [s EXCEPT !.stopped = TRUE]
                 editableElement == GetNameEditableElement(s0)
             IN  IF editableElement # None
                 THEN LET n == GetUneditedName(s0, editableElement)
                      IN  SetName(SetNameEditableElement(s0, None), editableElement, n)
                 ELSE s0
        ELSE s

(***************************************************************************)
(* Drag and drop.                                                          *)
(***************************************************************************)
\* store.getDraggedElement(): an element of the project whose dragged flag is
\* set; which one, when several are, the store decides.
DraggedChoices(s) ==
    IF s.dragged \cap ProjectElements(s) = {} THEN {None}
    ELSE s.dragged \cap ProjectElements(s)

\* store.unsetDraggedElement(): no element is dragged any more, whether or not
\* the dragged element is still in the project.
UnsetDraggedElement(s) == [s EXCEPT !.dragged = {}]

\* contentFromTarget(target, {sibling})
contentFromTarget(s, t, sibling) ==
    IF t.id = None THEN None
    ELSE IF GetContentById(s, t.id) # None THEN GetContentById(s, t.id)
    ELSE IF GetElementById(s, t.id) = None THEN None
    ELSE LET base == IF sibling THEN GetParent(s, t.id) ELSE t.id
         IN  IF base = None THEN None
             ELSE GetContentBySlotType(base, SlotChildren)

\* calculateDropIndex without the offset for the dragged element's own place.
calculateDropIndex_NoOffset(s, draggedElement, target) == GetIndex(s, target)


calculateDropIndex(s, draggedElement, target) ==
    LET newIndex == GetIndex(s, target)
        currentIndex == GetIndex(s, draggedElement)
    IN  IF GetContainer(s, draggedElement) # GetContainer(s, target) THEN newIndex
        ELSE IF newIndex > currentIndex THEN newIndex - 1
        ELSE newIndex

\* seq without the element e.
Without(seq, e) == SelectSeq(seq, LAMBDA x : x # e)

\* Array.prototype.splice(index, 0, e): an index past the end appends.
InsertAt(seq, index, e) ==
    LET i == IF index > Len(seq) THEN Len(seq) ELSE index
    IN  SubSeq(seq, 1, i) \o << e >> \o SubSeq(seq, i + 1, Len(seq))

\* store.execute(Model.ElementLocationCommand.addChild({childId, contentId, index})):
\* the child leaves its container and enters the content at the index.
ExecuteAddChild(s, childId, contentId, index) ==
    LET c == [cmd |-> "addChild", el |-> childId, name |-> NoName,
              content |-> contentId, index |-> index]
        removed == [k \in Contents |-> Without(s.elementsOf[k], childId)]
    IN  [s EXCEPT !.elementsOf =
                      [removed EXCEPT ![contentId] = InsertAt(removed[contentId], index, childId)],
                  !.submitted = Append(s.submitted, c)]

handleDragEnd(s) ==
    [s EXCEPT !.dragging = FALSE,
              !.dragImg = IF s.dragImg = "attached" THEN "detached" ELSE s.dragImg]

handleDragLeave(s, t) ==
    LET targetElement == elementFromTarget(s, t, FALSE)
    IN  IF targetElement = None THEN s
        ELSE [s EXCEPT !.highlighted = s.highlighted \ {targetElement},
                       !.placeholderHighlighted = s.placeholderHighlighted \ {targetElement}]

\* element.setHighlighted(value), element.setPlaceholderHighlighted(value)
SetFlag(set, e, value) == IF value THEN set \cup {e} ELSE set \ {e}

\* handleDragOver without the test of accepts().
handleDragOver_NoAccepts(s, t, draggedElement) ==
    LET isSibling == IsPlaceholder(t)
        targetParentElement == elementFromTarget(s, t, isSibling)
        visualTargetElement == elementFromTarget(s, t, FALSE)
    IN  IF targetParentElement = None \/ visualTargetElement = None THEN s
        ELSE IF draggedElement = None
        THEN [s EXCEPT !.highlighted = s.highlighted \ {visualTargetElement},
                       !.placeholderHighlighted =
                           s.placeholderHighlighted \ {visualTargetElement}]
        ELSE [s EXCEPT !.dropEffect = "copy",
                       !.highlighted =
                           SetFlag(s.highlighted, visualTargetElement, ~isSibling),
                       !.placeholderHighlighted =
                           SetFlag(s.placeholderHighlighted, visualTargetElement, isSibling)]


handleDragOver(s, t, draggedElement) ==
    LET isSibling == IsPlaceholder(t)
        targetParentElement == elementFromTarget(s, t, isSibling)
        visualTargetElement == elementFromTarget(s, t, FALSE)
    IN  IF targetParentElement = None \/ visualTargetElement = None THEN s
        ELSE IF draggedElement = None
        THEN [s EXCEPT !.highlighted = s.highlighted \ {visualTargetElement},
                       !.placeholderHighlighted =
                           s.placeholderHighlighted \ {visualTargetElement}]
        ELSE IF ~Accepts(s, targetParentElement, draggedElement) THEN s
        ELSE [s EXCEPT !.dropEffect = "copy",
                       !.highlighted =
                           SetFlag(s.highlighted, visualTargetElement, ~isSibling),
                       !.placeholderHighlighted =
                           SetFlag(s.placeholderHighlighted, visualTargetElement, isSibling)]

\* handleDragStart without the test of isNameEditable().
handleDragStart_NoEditGuard(s, t) ==
    LET element == elementFromTarget(s, t, FALSE)
    IN  IF element = None THEN [s EXCEPT !.prevented = TRUE]
        ELSE [s EXCEPT !.dragging = TRUE,
                       !.strayImgs = IF s.dragImg = "attached" THEN s.strayImgs + 1
                                     ELSE s.strayImgs,
                       !.dragImg = "attached",
                       !.dragged = s.dragged \cup {element}]

handleDragStart(s, t) ==
    LET element == elementFromTarget(s, t, FALSE)
    IN  IF element = None THEN [s EXCEPT !.prevented = TRUE]
        ELSE IF element \in s.nameEditable THEN [s EXCEPT !.prevented = TRUE]
        ELSE [s EXCEPT !.dragging = TRUE,
                       !.strayImgs = IF s.dragImg = "attached" THEN s.strayImgs + 1
                                     ELSE s.strayImgs,
                       !.dragImg = "attached",
                       !.dragged = s.dragged \cup {element}]

\* handleDrop without the test of accepts().
handleDrop_NoAccepts(s, t, draggedElement) ==
    LET s0 == handleDragEnd(s)
        isSiblingDrop == IsPlaceholder(t)
        rawTargetElement == elementFromTarget(s0, t, FALSE)
        dropTargetElement == elementFromTarget(s0, t, isSiblingDrop)
        dropTargetContent == contentFromTarget(s0, t, isSiblingDrop)
    IN  IF rawTargetElement = None \/ dropTargetElement = None
           \/ dropTargetContent = None \/ draggedElement = None THEN s0
        ELSE LET index == IF ~isSiblingDrop THEN Len(s0.elementsOf[dropTargetContent])
                          ELSE calculateDropIndex(s0, draggedElement, rawTargetElement)
             IN  IF index = NoIndex THEN s0
                 ELSE SetSelectedElement(
                          ExecuteAddChild(s0, draggedElement, dropTargetContent, index),
                          draggedElement)

\* handleDrop that does not select the element it moved.
handleDrop_NoSelect(s, t, draggedElement) ==
    LET s0 == handleDragEnd(s)
        isSiblingDrop == IsPlaceholder(t)
        rawTargetElement == elementFromTarget(s0, t, FALSE)
        dropTargetElement == elementFromTarget(s0, t, isSiblingDrop)
        dropTargetContent == contentFromTarget(s0, t, isSiblingDrop)
    IN  IF rawTargetElement = None \/ dropTargetElement = None
           \/ dropTargetContent = None \/ draggedElement = None THEN s0
        ELSE IF ~Accepts(s0, dropTargetElement, draggedElement) THEN s0
        ELSE LET index == IF ~isSiblingDrop THEN Len(s0.elementsOf[dropTargetContent])
                          ELSE calculateDropIndex(s0, draggedElement, rawTargetElement)
             IN  IF index = NoIndex THEN s0
                 ELSE ExecuteAddChild(s0, draggedElement, dropTargetContent, index)

handleDrop(s, t, draggedElement) ==
    LET s0 == handleDragEnd(s)
        isSiblingDrop == IsPlaceholder(t)
        rawTargetElement == elementFromTarget(s0, t, FALSE)
        dropTargetElement == elementFromTarget(s0, t, isSiblingDrop)
        dropTargetContent == contentFromTarget(s0, t, isSiblingDrop)
    IN  IF rawTargetElement = None \/ dropTargetElement = None
           \/ dropTargetContent = None \/ draggedElement = None THEN s0
        ELSE IF ~Accepts(s0, dropTargetElement, draggedElement) THEN s0
        ELSE LET index == IF ~isSiblingDrop THEN Len(s0.elementsOf[dropTargetContent])
                          ELSE calculateDropIndex(s0, draggedElement, rawTargetElement)
             IN  IF index = NoIndex THEN s0
                 ELSE SetSelectedElement(
                          ExecuteAddChild(s0, draggedElement, dropTargetContent, index),
                          draggedElement)

handleMouseLeave(s, t) ==
    LET element == elementFromTarget(s, t, FALSE)
    IN  IF element # None
        THEN [s EXCEPT !.highlighted = s.highlighted \ {element}, !.dragging = TRUE]
        ELSE s

handleMouseOver(s, t) ==
    LET element == elementFromTarget(s, t, FALSE)
        label == AboveLabel(t)
        s1 == IF ~label /\ element # None /\ element = Root
              THEN [s EXCEPT !.highlighted = s.highlighted \ ProjectElements(s)]
              ELSE s
    IN  IF label /\ element # None
        THEN [s1 EXCEPT !.highlighted = (s1.highlighted \ ProjectElements(s1)) \cup {element},
                        !.dragging = FALSE]
        ELSE s1

(***************************************************************************)
(* The projection.  An item that is undefined is the empty sequence, an    *)
(* item that is defined a sequence of one view node.                       *)
(***************************************************************************)
\* element.getPattern() is defined
HasPattern(s, e) == e \notin s.unresolved

\* partition(pattern.getSlots(), slot => slot.getType() === Types.SlotType.Children)
ChildrenSlots(e) == SelectSeq(PatternSlots(e), LAMBDA slot : slot.type = SlotChildren)
OtherSlots(e) == SelectSeq(PatternSlots(e), LAMBDA slot : slot.type # SlotChildren)

RECURSIVE createItemFromElement(_, _)
RECURSIVE createItemFromSlot(_, _, _)
RECURSIVE ItemsOfElements(_, _)
RECURSIVE ItemsOfSlots(_, _, _)

\* elements.map(e => this.createItemFromElement(e)).filter(defined)
ItemsOfElements(s, seq) ==
    IF seq = << >> THEN << >>
    ELSE createItemFromElement(s, Head(seq)) \o ItemsOfElements(s, Tail(seq))

\* slotsData.map(createSlot).filter(defined)
ItemsOfSlots(s, slots, e) ==
    IF slots = << >> THEN << >>
    ELSE createItemFromSlot(s, Head(slots), e) \o ItemsOfSlots(s, Tail(slots), e)

createItemFromSlot(s, slot, e) ==
    LET slotContent == GetContentBySlotId(e, slot.id)
    IN  IF slotContent = None THEN << >>
        ELSE << [ active |-> FALSE,
                  children |-> ItemsOfElements(s, s.elementsOf[slotContent]),
                  draggable |-> FALSE,
                  dragging |-> s.dragging,
                  editable |-> FALSE,
                  highlight |-> e \in s.highlighted,
                  highlightPlaceholder |-> FALSE,
                  id |-> slotContent,
                  open |-> TRUE,
                  title |-> slot.id ] >>

\* createItemFromElement with the default slot's children before the slots.
createItemFromElement_ChildrenFirst(s, e) ==
    IF ~HasPattern(s, e) THEN << >>
    ELSE LET defaultSlot == IF ChildrenSlots(e) # << >>
                            THEN createItemFromSlot(s, ChildrenSlots(e)[1], e)
                            ELSE << [children |-> << >>] >>
             children == IF defaultSlot # << >> THEN defaultSlot[1].children ELSE << >>
             slots == ItemsOfSlots(s, OtherSlots(e), e)
         IN  << [ active |-> e \in s.selected,
                  children |-> children \o slots,
                  draggable |-> e \notin s.nameEditable,
                  dragging |-> s.dragging,
                  editable |-> e \in s.nameEditable,
                  highlight |-> e \in s.highlighted,
                  highlightPlaceholder |-> e \in s.placeholderHighlighted,
                  id |-> e,
                  title |-> GetName(s, e),
                  open |-> e \in s.open
                           \/ \E d \in GetDescendants(s, e) : d \in s.selected ] >>

\* createItemFromElement without the test of the pattern.
createItemFromElement_NoPatternCheck(s, e) ==
    LET defaultSlot == IF ChildrenSlots(e) # << >>
                       THEN createItemFromSlot(s, ChildrenSlots(e)[1], e)
                       ELSE << [children |-> << >>] >>
        children == IF defaultSlot # << >> THEN defaultSlot[1].children ELSE << >>
        slots == ItemsOfSlots(s, OtherSlots(e), e)
    IN  << [ active |-> e \in s.selected,
             children |-> slots \o children,
             draggable |-> e \notin s.nameEditable,
             dragging |-> s.dragging,
             editable |-> e \in s.nameEditable,
             highlight |-> e \in s.highlighted,
             highlightPlaceholder |-> e \in s.placeholderHighlighted,
             id |-> e,
             title |-> GetName(s, e),
             open |-> e \in s.open
                      \/ \E d \in GetDescendants(s, e) : d \in s.selected ] >>

\* createItemFromElement that opens a node for a selected child only.
createItemFromElement_ChildSelected(s, e) ==
    IF ~HasPattern(s, e) THEN << >>
    ELSE LET defaultSlot == IF ChildrenSlots(e) # << >>
                            THEN createItemFromSlot(s, ChildrenSlots(e)[1], e)
                            ELSE << [children |-> << >>] >>
             children == IF defaultSlot # << >> THEN defaultSlot[1].children ELSE << >>
             slots == ItemsOfSlots(s, OtherSlots(e), e)
         IN  << [ active |-> e \in s.selected,
                  children |-> slots \o children,
                  draggable |-> e \notin s.nameEditable,
                  dragging |-> s.dragging,
                  editable |-> e \in s.nameEditable,
                  highlight |-> e \in s.highlighted,
                  highlightPlaceholder |-> e \in s.placeholderHighlighted,
                  id |-> e,
                  title |-> GetName(s, e),
                  open |-> e \in s.open
                           \/ \E d \in ChildrenOf(s, e) : d \in s.selected ] >>

createItemFromElement(s, e) ==
    IF ~HasPattern(s, e) THEN << >>
    ELSE LET defaultSlot == IF ChildrenSlots(e) # << >>
                            THEN createItemFromSlot(s, ChildrenSlots(e)[1], e)
                            ELSE << [children |-> << >>] >>
             children == IF defaultSlot # << >> THEN defaultSlot[1].children ELSE << >>
             slots == ItemsOfSlots(s, OtherSlots(e), e)
         IN  << [ active |-> e \in s.selected,
                  children |-> slots \o children,
                  draggable |-> e \notin s.nameEditable,
                  dragging |-> s.dragging,
                  editable |-> e \in s.nameEditable,
                  highlight |-> e \in s.highlighted,
                  highlightPlaceholder |-> e \in s.placeholderHighlighted,
                  id |-> e,
                  title |-> GetName(s, e),
                  open |-> e \in s.open
                           \/ \E d \in GetDescendants(s, e) : d \in s.selected ] >>

(***************************************************************************)
(* Events.  An event runs to completion: the list's own handler first      *)
(* (React's, on the way up from the target), then the window's listener of *)
(* that event type unless propagation was stopped.  last records the event *)
(* and what it found: who (the dragged or the renamed element before the   *)
(* event), was (its container, or the typed name) and at (its index).      *)
(***************************************************************************)
EvFull(ev, el, info, who, was, at, res) ==
    [ev |-> ev, el |-> el, info |-> info, who |-> who, was |-> was, at |-> at,
     res |-> res]
Ev(ev, el, info) == EvFull(ev, el, info, None, None, NoIndex, None)
\* An event of a drag, with the dragged element the store returned.
EvDrag(ev, t, d, res) ==
    EvFull(ev, t.id, t.part, d,
           IF d = None THEN None ELSE GetContainer(Cur, d),
           IF d = None THEN NoIndex ELSE GetIndex(Cur, d), res)
\* An event that meets the element being renamed.
EvEdit(ev, el, info) ==
    EvFull(ev, el, info, GetNameEditableElement(Cur), editedName, NoIndex, None)

\* A document: what each content holds.
Document(head, kids, boxKids) ==
    [c \in Contents |->
        CASE c = "root.head" -> head [] c = "root.kids" -> kids [] c = "box.kids" -> boxKids]

\* The documents a run may start from: a leaf in the named slot and a box with
\* a child in the default slot; the box with its child in the named slot; one
\* element in the named slot and two in the default slot.
Documents ==
    { Document(<< "a" >>, << "box" >>, << "b" >>),
      Document(<< "box" >>, << "a" >>, << "b" >>),
      Document(<< "a" >>, << "box", "b" >>, << >>) }

InitState(doc, noPattern) ==
    /\ elementsOf = doc
    /\ name = [e \in Elements |-> NameOf(1)]
    /\ editedName = NoName
    /\ preEditName = NoName
    /\ selected = {}
    /\ nameEditable = {}
    /\ highlighted = {}
    /\ placeholderHighlighted = {}
    /\ dragged = {}
    /\ open = {}
    /\ dragging = FALSE
    /\ dragImg = "unset"
    /\ phase = "constructed"
    /\ windowListeners = {}
    /\ ref = FALSE
    /\ unresolved = noPattern
    /\ strayImgs = 0
    /\ submitted = << >>
    /\ last = Ev("init", None, None)

InitWith(doc) == InitState(doc, {})

\* The sets of elements whose pattern is missing from the pattern library.
UnresolvedSets == { {}, {"a"}, {"b"}, {"box"} }
InitUnresolved == \E doc \in Documents, u \in UnresolvedSets : InitState(doc, u)

Init == InitWith(Document(<< "a" >>, << "box" >>, << "b" >>))
InitDocuments == \E doc \in Documents : InitWith(doc)

Mount ==
    /\ phase = "constructed"
    /\ Apply(componentDidMount(Cur), Ev("mount", None, None))

Unmount ==
    /\ phase = "mounted"
    /\ Apply(componentWillUnmount(Cur), Ev("unmount", None, None))

Click(t) ==
    /\ phase = "mounted"
    /\ Apply(handleClick(Cur, t), EvEdit("click", t.id, t.part))

Blur ==
    /\ phase = "mounted"
    /\ Apply(handleBlur(Cur), EvEdit("blur", None, None))

\* The name input of the element being renamed changes (ElementWrapper).
InputChange(n) ==
    /\ phase = "mounted"
    /\ GetNameEditableElement(Cur) # None
    /\ Apply(SetName(Cur, GetNameEditableElement(Cur), n), EvEdit("input", None, n))

KeyName(key) ==
    CASE key = KeyEnter -> "enter" [] key = KeyEscape -> "escape" [] OTHER -> "other"

KeyDown(origin, key) ==
    /\ phase # "constructed"
    /\ origin = "inside" => phase = "mounted"
    /\ LET s1 == IF origin = "inside" THEN handleKeyDown(Cur, origin, key) ELSE Cur
           s2 == IF ~s1.stopped /\ <<"keydown", KeyDownListener>> \in windowListeners
                 THEN handleKeyDown(s1, origin, key) ELSE s1
       IN  Apply(s2, EvEdit("keydown", origin, KeyName(key)))

\* A listener of the window runs when it is registered for the event type.
WindowDragEnd(s, type) ==
    IF <<type, DragEndListener>> \in s.windowListeners THEN UnsetDraggedElement(s) ELSE s

DragStart(t) ==
    /\ phase = "mounted"
    /\ dragImg = "attached" => strayImgs < MaxStray
    /\ LET s1 == handleDragStart(Cur, t)
       IN  Apply(s1, EvDrag("dragstart", t, None,
                            IF s1.prevented THEN "prevented" ELSE "started"))

DragOver(t) ==
    /\ phase = "mounted"
    /\ \E d \in DraggedChoices(Cur) :
          LET s1 == handleDragOver(Cur, t, d)
          IN  Apply(s1, EvDrag("dragover", t, d,
                               IF s1.dropEffect = "copy" THEN "accept" ELSE "reject"))

DragLeave(t) ==
    /\ phase = "mounted"
    /\ Apply(handleDragLeave(Cur, t), Ev("dragleave", t.id, t.part))

\* A drag ends on a node of the list: onDragEnd, then the window's listener.
DragEnd ==
    /\ phase = "mounted"
    /\ Apply(WindowDragEnd(handleDragEnd(Cur), "dragend"), Ev("dragend", "list", None))

\* A drop on a node of the list: onDrop, then the window's listener.
Drop(t) ==
    /\ phase = "mounted"
    /\ \E d \in DraggedChoices(Cur) :
          LET s1 == handleDrop(Cur, t, d)
          IN  Apply(WindowDragEnd(s1, "drop"),
                    EvDrag("drop", t, d,
                           IF s1.submitted # << >> THEN "moved" ELSE "ignored"))

\* A drag ends or drops outside the list: only the window's listeners run.
GlobalDragEnd(type) ==
    /\ phase # "constructed"
    /\ Apply(WindowDragEnd(Cur, type), Ev(type, "window", None))

MouseOver(t) ==
    /\ phase = "mounted"
    /\ Apply(handleMouseOver(Cur, t), Ev("mouseover", t.id, t.part))

MouseLeave(t) ==
    /\ phase = "mounted"
    /\ Apply(handleMouseLeave(Cur, t), Ev("mouseleave", t.id, t.part))

(***************************************************************************)
(* Specifications.  Next takes every event at every target; the scenarios  *)
(* below take the events of one concern each, at the targets that matter   *)
(* to it, which keeps each of them small enough to explore in full.        *)
(***************************************************************************)
AllTargets == Targets(Parts)
\* The rows of the elements, hit at one of the parts, a slot's row, and a
\* node outside every row.
ElementRows(parts) == [id : Elements, part : parts]
RowsAt(parts) ==
    ElementRows(parts) \cup {[id |-> "root.head", part |-> "body"], OutsideTarget}
ClickTargets == RowsAt({"label", "body"}) \cup {DragRootTarget}
GrabTargets == RowsAt({"body"})
DropTargets == RowsAt({"body", "placeholder"})
WindowEvents == {"drop", "dragend"}

Next ==
    \/ Mount
    \/ Unmount
    \/ \E t \in AllTargets : Click(t)
    \/ Blur
    \/ \E n \in Names : InputChange(n)
    \/ \E o \in Origins, k \in Keys : KeyDown(o, k)
    \/ \E t \in AllTargets : DragStart(t)
    \/ \E t \in AllTargets : DragOver(t)
    \/ \E t \in AllTargets : DragLeave(t)
    \/ DragEnd
    \/ \E t \in AllTargets : Drop(t)
    \/ \E type \in WindowEvents : GlobalDragEnd(type)
    \/ \E t \in AllTargets : MouseOver(t)
    \/ \E t \in AllTargets : MouseLeave(t)

Spec == Init /\ [][Next]_vars

\* Renaming: clicks, keys, typing and loss of focus.
NextRename ==
    \/ Mount
    \/ Unmount
    \/ \E t \in ClickTargets : Click(t)
    \/ Blur
    \/ \E n \in Names : InputChange(n)
    \/ \E o \in Origins, k \in Keys : KeyDown(o, k)

SpecRename == Init /\ [][NextRename]_vars

\* Hovering: drags over the list and their ends.
NextHover ==
    \/ Mount
    \/ \E t \in GrabTargets : DragStart(t)
    \/ \E t \in DropTargets : DragOver(t)
    \/ \E t \in DropTargets : DragLeave(t)
    \/ DragEnd
    \/ \E type \in WindowEvents : GlobalDragEnd(type)

SpecHover == InitDocuments /\ [][NextHover]_vars

\* Moving: drags that end in drops.
NextDrop ==
    \/ Mount
    \/ \E t \in GrabTargets : DragStart(t)
    \/ \E t \in DropTargets : Drop(t)
    \/ DragEnd

SpecDrop == InitDocuments /\ [][NextDrop]_vars

\* Selecting: clicks, Enter and Escape, loss of focus and drops, each at the
\* rows of the elements.
NextSelect ==
    \/ Mount
    \/ \E t \in ElementRows({"label", "body"}) : Click(t)
    \/ Blur
    \/ \E k \in {KeyEnter, KeyEscape} : KeyDown("inside", k)
    \/ \E t \in ElementRows({"body"}) : DragStart(t)
    \/ \E t \in ElementRows({"body", "placeholder"}) : Drop(t)

SpecSelect == Init /\ [][NextSelect]_vars

\* The life of the component: mount, drags and their ends, unmount, and the
\* window's events after it.
NextLife ==
    \/ Mount
    \/ Unmount
    \/ \E t \in GrabTargets : DragStart(t)
    \/ DragEnd
    \/ \E type \in WindowEvents : GlobalDragEnd(type)
    \/ \E o \in Origins, k \in Keys : KeyDown(o, k)

SpecLife == Init /\ [][NextLife]_vars

\* Expanding: clicks that select, rename and expand.
NextExpand ==
    \/ Mount
    \/ \E t \in ClickTargets \cup RowsAt({"icon"}) : Click(t)

SpecExpand == InitDocuments /\ [][NextExpand]_vars

\* The row of the target is in the rendered tree: the element, or the slot's
\* owner, and every element above it has a pattern.
RECURSIVE IsShown(_, _, _)
IsShown(s, e, n) ==
    IF ~HasPattern(s, e) THEN FALSE
    ELSE IF n = 0 \/ GetParent(s, e) = None THEN TRUE
    ELSE IsShown(s, GetParent(s, e), n - 1)
IsRendered(s, t) ==
    CASE t.id \in Elements -> IsShown(s, t.id, Cardinality(Elements))
      [] t.id \in Contents -> IsShown(s, ContentOwner(t.id), Cardinality(Elements))
      [] OTHER -> TRUE

\* Projecting: drags and drops at the rendered rows of documents that hold
\* an element without a pattern.
NextProject ==
    \/ Mount
    \/ \E t \in GrabTargets : IsRendered(Cur, t) /\ DragStart(t)
    \/ \E t \in DropTargets : IsRendered(Cur, t) /\ Drop(t)
    \/ DragEnd

SpecProject == InitUnresolved /\ [][NextProject]_vars

\* Grabbing: drags that start at rows, at a slot's row and outside, while an
\* element may be being renamed.
NextGrab ==
    \/ Mount
    \/ \E t \in ElementRows({"label"}) : Click(t)
    \/ \E t \in GrabTargets : DragStart(t)
    \/ DragEnd

SpecGrab == Init /\ [][NextGrab]_vars

\* Pointing: the mouse over and off the rows, and drags.
NextMouse ==
    \/ Mount
    \/ \E t \in ElementRows({"body"}) : DragStart(t)
    \/ DragEnd
    \/ \E t \in ElementRows({"body"}) : Drop(t)
    \/ \E t \in RowsAt({"label", "body"}) : MouseOver(t)
    \/ \E t \in RowsAt({"body"}) : MouseLeave(t)

SpecMouse == Init /\ [][NextMouse]_vars

(***************************************************************************)
(* Properties.                                                             *)
(***************************************************************************)
\* The ancestors of an element, read off the parent links.
RECURSIVE AncestorsWithin(_, _)
AncestorsWithin(e, n) ==
    IF n = 0 \/ GetParent(Cur, e) = None THEN {}
    ELSE {GetParent(Cur, e)} \cup AncestorsWithin(GetParent(Cur, e), n - 1)
Ancestors(e) == AncestorsWithin(e, Cardinality(Elements))

\* C1: calculateDropIndex follows the reference rule for every pair of
\* positions: the target's index when the two are in different containers,
\* the target's index minus 1 when they share a container and the target
\* comes later, the target's index otherwise; and it is never negative.
C1_DropIndexRule ==
    \A cd \in Contents, ct \in Contents :
        \A i \in DOMAIN elementsOf[cd], j \in DOMAIN elementsOf[ct] :
            LET r == calculateDropIndex(Cur, elementsOf[cd][i], elementsOf[ct][j])
            IN  /\ r >= 0
                /\ r = IF cd # ct THEN j - 1 ELSE IF j > i THEN j - 2 ELSE j - 1

\* A drop beside a later sibling moved the dragged element forward within its
\* container, past an element in between.
C1_Witness ==
    /\ last.ev = "drop" /\ last.info = "placeholder" /\ last.res = "moved"
    /\ submitted[1].content = last.was
    /\ submitted[1].index > last.at
    /\ GetIndex(Cur, submitted[1].el) = submitted[1].index

\* C2: after two accepted hovers in a row over different targets no element
\* but the second target is highlighted.
C2_HighlightExclusive ==
    [][ ( /\ last.ev = "dragover" /\ last.res = "accept"
          /\ last'.ev = "dragover" /\ last'.res = "accept"
          /\ last'.el # last.el )
        => highlighted' \subseteq {last'.el} ]_vars

\* The element a hover decides on: the row's element, or its parent when the
\* placeholder is hit.
HoverParent(ev) == IF ev.info = "placeholder" THEN GetParent(Cur, ev.el) ELSE ev.el

\* C3: a hover over the dragged element or one of its descendants is
\* rejected and changes no element's highlighted or highlightPlaceholder flag.
C3_RejectedHoverKeepsFlags ==
    [][ ( /\ last'.ev = "dragover" /\ last'.who # None /\ last'.el \in Elements
          /\ HoverParent(last') # None
          /\ last'.who \in {HoverParent(last')} \cup Ancestors(HoverParent(last')) )
        => /\ last'.res = "reject"
           /\ highlighted' = highlighted
           /\ placeholderHighlighted' = placeholderHighlighted ]_vars

\* A hover over a strict descendant of the dragged element was rejected while
\* a highlight stood.
C3_Witness ==
    /\ last.ev = "dragover" /\ last.who # None /\ last.res = "reject"
    /\ last.el \in Elements
    /\ HoverParent(last) # None
    /\ last.who \in Ancestors(HoverParent(last))
    /\ highlighted # {}

\* The key event reached the list's key handler.
Received(ev, key) ==
    ev.ev = "keydown" /\ ev.info = key /\ ev.el \in {"body", "inside"}

RenameCommand(e, n) ==
    [cmd |-> "rename", el |-> e, name |-> n, content |-> None, index |-> NoIndex]

\* C4: Enter while e is being renamed submits exactly one rename command, of
\* e with its current name, and leaves e selected and not renamed; a loss of
\* focus after it submits nothing.
C4_EnterCommitsOnce ==
    [][ /\ ( phase = "mounted" /\ Received(last', "enter") /\ nameEditable # {} )
           => \E e \in nameEditable :
                 /\ nameEditable = {e}
                 /\ submitted' = << RenameCommand(e, editedName) >>
                 /\ name'[e] = editedName
                 /\ nameEditable' = {}
                 /\ selected' = {e}
        /\ ( Received(last, "enter") /\ last.who # None /\ last'.ev = "blur" )
           => submitted' = << >> /\ nameEditable' = {} /\ selected' = selected
      ]_vars

\* Enter inside the list committed a name that had been typed.
C4_Witness ==
    /\ Received(last, "enter") /\ last.el = "inside" /\ last.who # None
    /\ submitted = << RenameCommand(last.who, NameOf(2)) >>
    /\ name[last.who] = NameOf(2)
    /\ nameEditable = {}
    /\ selected = {last.who}

\* C5: Escape while e is being renamed restores e's name from before the
\* edit, leaves e selected and not renamed and submits no command; a loss of
\* focus after it submits nothing either.
C5_EscapeReverts ==
    [][ /\ ( phase = "mounted" /\ Received(last', "escape") /\ nameEditable # {} )
           => \E e \in nameEditable :
                 /\ nameEditable = {e}
                 /\ name' = [name EXCEPT ![e] = preEditName]
                 /\ nameEditable' = {}
                 /\ selected' = {e}
                 /\ submitted' = << >>
        /\ ( Received(last, "escape") /\ last.who # None /\ last'.ev = "blur" )
           => submitted' = << >> /\ name' = name
      ]_vars

\* Escape dropped a typed name that differed from the element's name.
C5_Witness ==
    /\ Received(last, "escape") /\ last.who # None
    /\ last.was # name[last.who]
    /\ nameEditable = {}
    /\ selected = {last.who}
    /\ submitted = << >>

SelectionSingleton ==
    /\ Cardinality(selected) <= 1
    /\ Cardinality(nameEditable) <= 1
    /\ nameEditable \subseteq selected

C7_UnmountUnbindsAll == phase = "unmounted" => windowListeners = {}

\* C8: after the drag cleanup (the list's drag-end handler and the window's)
\* nothing is dragging, no element is dragged and no drag preview is attached.
C8_CleanupLeavesNothing ==
    ( last.ev = "dragend" /\ last.el = "list" )
    => /\ ~dragging
       /\ dragged = {}
       /\ dragImg # "attached"
       /\ strayImgs = 0

\* The ids of a sequence of view nodes.
IdsOf(items) == [i \in DOMAIN items |-> items[i].id]

\* The children an element's view node is to have: the named slots' nodes,
\* then the default slot's elements.
ExpectedChildren(e) ==
    CASE e = "root" -> << "root.head" >> \o elementsOf["root.kids"]
      [] e = "box"  -> elementsOf["box.kids"]
      [] OTHER      -> << >>

\* C9: an element's view node lists the nodes of its named slots that have
\* content, in pattern order, then the default slot's elements in stored
\* order; a slot's node lists the slot's elements in stored order; no
\* default-slot child comes before a slot's node.
C9_ProjectionOrder ==
    \A e \in Elements :
        LET item == createItemFromElement(Cur, e)
        IN  /\ Len(item) = 1
            /\ IdsOf(item[1].children) = ExpectedChildren(e)
            /\ \A i \in DOMAIN item[1].children :
                  LET child == item[1].children[i]
                  IN  /\ child.id \in Contents
                         => IdsOf(child.children) = elementsOf[child.id]
                      /\ \A j \in DOMAIN item[1].children :
                            ( i < j /\ child.id \in Elements )
                            => item[1].children[j].id \in Elements

\* The root projects one named slot holding one element before two
\* default-slot children, the second of them put there by a drop.
C9_Witness ==
    /\ last.ev = "drop" /\ last.res = "moved"
    /\ Len(elementsOf["root.head"]) = 1
    /\ Len(elementsOf["root.kids"]) = 2
    /\ IdsOf(createItemFromElement(Cur, Root)[1].children)
           = << "root.head" >> \o elementsOf["root.kids"]
    /\ IdsOf(createItemFromElement(Cur, Root)[1].children[1].children)
           = elementsOf["root.head"]

\* C10: an element's view node is open exactly when the element's open flag
\* is set or a strict descendant of it is selected.
C10_AutoExpand ==
    \A e \in Elements :
        createItemFromElement(Cur, e)[1].open
            <=> ( e \in open \/ \E d \in selected : e \in Ancestors(d) )

\* A click selected an element two levels below the root, whose ancestors
\* are not flagged open and project as open.
C10_Witness ==
    /\ last.ev = "click"
    /\ open = {}
    /\ \E d \in selected :
          /\ Cardinality(Ancestors(d)) = 2
          /\ \A n \in Ancestors(d) : createItemFromElement(Cur, n)[1].open
          /\ ~createItemFromElement(Cur, d)[1].open

\* The elements of a sequence that have a pattern.
Resolved(seq) == SelectSeq(seq, LAMBDA e : e \notin unresolved)

\* The children the view node of an element with a pattern is to have.
ExpectedResolved(e) ==
    CASE e = "root" -> << "root.head" >> \o Resolved(elementsOf["root.kids"])
      [] e = "box"  -> Resolved(elementsOf["box.kids"])
      [] OTHER      -> << >>

\* C11: an element without a pattern projects to nothing; in the list of its
\* parent's children, and in a slot's node, it is left out and the other
\* elements keep their order.
C11_UnresolvedOmitted ==
    \A e \in Elements :
        LET item == createItemFromElement(Cur, e)
        IN  IF e \in unresolved THEN item = << >>
            ELSE /\ Len(item) = 1
                 /\ IdsOf(item[1].children) = ExpectedResolved(e)
                 /\ \A i \in DOMAIN item[1].children :
                       item[1].children[i].id \in Contents
                       => IdsOf(item[1].children[i].children)
                              = Resolved(elementsOf[item[1].children[i].id])

\* A drop left an element without a pattern between two siblings that
\* project, in order, without it.
C11_Witness ==
    /\ last.ev = "drop" /\ last.res = "moved"
    /\ \E c \in Contents :
          /\ Len(elementsOf[c]) = 3
          /\ elementsOf[c][2] \in unresolved
          /\ createItemFromElement(Cur, elementsOf[c][2]) = << >>
          /\ IdsOf(ItemsOfElements(Cur, elementsOf[c]))
                 = << elementsOf[c][1], elementsOf[c][3] >>

\* C12: a drag start at a target that resolves to no element, or to the
\* element being renamed, is prevented and changes no dragged flag, not the
\* dragging flag and no drag preview; any other drag start sets the
\* element's dragged flag and the dragging flag.
C12_StartDragGuard ==
    [][ last'.ev = "dragstart"
        => IF last'.el \notin ProjectElements(Cur) \/ last'.el \in nameEditable
           THEN /\ last'.res = "prevented"
                /\ dragged' = dragged
                /\ dragging' = dragging
                /\ dragImg' = dragImg
                /\ strayImgs' = strayImgs
           ELSE /\ last'.res = "started"
                /\ last'.el \in dragged'
                /\ dragging' ]_vars

\* A drag start at the element being renamed was prevented, with nothing
\* dragged and no drag preview made.
C12_Witness ==
    /\ last.ev = "dragstart" /\ last.res = "prevented"
    /\ last.el \in nameEditable
    /\ dragged = {} /\ ~dragging /\ dragImg = "unset"

\* The drop cannot be carried out: the row is no element's, the element to
\* drop into is missing or has no default slot, nothing is dragged, or the
\* element to drop into is the dragged element or lies below it.
DropFails(ev) ==
    \/ ev.el \notin ProjectElements(Cur)
    \/ HoverParent(ev) = None
    \/ ev.who = None
    \/ ev.who \in {HoverParent(ev)} \cup Ancestors(HoverParent(ev))
    \/ GetContentBySlotType(HoverParent(ev), SlotChildren) = None

\* C13: a drop that cannot be carried out submits no command and leaves the
\* tree and the selection as they were.
C13_FailedDropIsNoOp ==
    [][ ( last'.ev = "drop" /\ DropFails(last') )
        => /\ last'.res = "ignored"
           /\ submitted' = << >>
           /\ elementsOf' = elementsOf
           /\ selected' = selected ]_vars

\* A drop beside a child of the dragged element was ignored while an element
\* was selected.
C13_Witness ==
    /\ last.ev = "drop" /\ last.res = "ignored" /\ last.info = "placeholder"
    /\ last.who # None
    /\ last.who = GetParent(Cur, last.el)
    /\ selected # {}
    /\ submitted = << >>

\* C14: a key event that starts neither at document.body nor inside the
\* list's root changes no selection, rename or name, submits no command and
\* is not stopped; so does a key event at any node but document.body when the
\* root reference is not set.
C14_KeyScoping ==
    /\ \A k \in Keys :
          /\ handleKeyDown(Cur, "elsewhere", k) = Cur
          /\ \A o \in {"inside", "elsewhere"} :
                handleKeyDown([Cur EXCEPT !.ref = FALSE], o, k)
                    = [Cur EXCEPT !.ref = FALSE]
    /\ [][ ( last'.ev = "keydown" /\ last'.el = "elsewhere" )
           => /\ submitted' = << >>
              /\ UNCHANGED << selected, nameEditable, name, editedName >> ]_vars

\* Enter at a node outside the list left the rename of a typed name going.
C14_Witness ==
    /\ last.ev = "keydown" /\ last.el = "elsewhere" /\ last.info = "enter"
    /\ phase = "mounted"
    /\ nameEditable # {} /\ nameEditable = selected
    /\ editedName = NameOf(2)
    /\ submitted = << >>

\* A drop beside a row was carried out.
SiblingDropMoved(ev) == ev.ev = "drop" /\ ev.info = "placeholder" /\ ev.res = "moved"

\* C15: after a drop of d beside t is carried out, d stands immediately
\* before t in the container of t, and the other elements of every content
\* keep their order; a drop of t beside itself leaves the order as it was.
C15_SiblingDropPlacement ==
    [][ SiblingDropMoved(last')
        => IF last'.who = last'.el THEN elementsOf' = elementsOf
           ELSE /\ \E i \in 1..(Len(elementsOf'[GetContainer(Cur, last'.el)]) - 1) :
                      /\ elementsOf'[GetContainer(Cur, last'.el)][i] = last'.who
                      /\ elementsOf'[GetContainer(Cur, last'.el)][i + 1] = last'.el
                /\ \A c \in Contents :
                      Without(elementsOf'[c], last'.who) = Without(elementsOf[c], last'.who)
      ]_vars

\* C16: the content a drop beside t names is the container of t, and the
\* index it names is a position of that content, from 0 to its size.
C16_SiblingDropTarget ==
    [][ SiblingDropMoved(last')
        => /\ submitted'[1].content = GetContainer(Cur, last'.el)
           /\ submitted'[1].index \in 0..Len(elementsOf[submitted'[1].content])
      ]_vars

\* A drop on the body of a row was carried out.
AppendDropMoved(ev) == ev.ev = "drop" /\ ev.info = "body" /\ ev.res = "moved"

\* C17: a drop on the body of a row names the size of the target content as
\* the index; after it the dragged element is the last element of that
\* content; and the index is a position of the content the element is
\* inserted into, which no longer holds the dragged element.
C17_AppendDrop ==
    [][ AppendDropMoved(last')
        => LET c == submitted'[1].content
           IN  /\ c = GetContentBySlotType(last'.el, SlotChildren)
               /\ submitted'[1].index = Len(elementsOf[c])
               /\ elementsOf'[c] # << >>
               /\ elementsOf'[c][Len(elementsOf'[c])] = last'.who
               /\ submitted'[1].index \in 0..Len(Without(elementsOf[c], last'.who))
      ]_vars

\* C18: at most one element is dragged.
C18_DragSingleton == Cardinality(dragged) <= 1

\* C19: the list is dragging only while an element is dragged, and not
\* after a drop or the end of a drag.
C19_DraggingTracksDrag ==
    /\ dragging => dragged # {}
    /\ last.ev \in {"drop", "dragend"} => ~dragging

\* The command a drop is to submit: the dragged element, the default slot of
\* the element dropped into, and the index of the kind of drop.
DropCommand(ev) ==
    [ cmd |-> "addChild", el |-> ev.who, name |-> NoName,
      content |-> GetContentBySlotType(HoverParent(ev), SlotChildren),
      index |-> IF ev.info = "placeholder"
                THEN calculateDropIndex(Cur, ev.who, ev.el)
                ELSE Len(elementsOf[GetContentBySlotType(HoverParent(ev), SlotChildren)]) ]

\* C20: a drop that is carried out submits one command, with the dragged
\* element, the target content and the index, and leaves the dragged element
\* the one selected element.
C20_DropSelectsMoved ==
    [][ ( last'.ev = "drop" /\ last'.res = "moved" )
        => /\ submitted' = << DropCommand(last') >>
           /\ selected' = {last'.who}
           /\ last'.who \in Range(elementsOf'[submitted'[1].content]) ]_vars

\* A drop on the body of the box moved an element from another content
\* behind the box's child and left it the one selected element.
C20_Witness ==
    /\ last.ev = "drop" /\ last.res = "moved" /\ last.info = "body"
    /\ last.was # "box.kids"
    /\ submitted = << [ cmd |-> "addChild", el |-> last.who, name |-> NoName,
                        content |-> "box.kids", index |-> 1 ] >>
    /\ elementsOf["box.kids"][2] = last.who
    /\ selected = {last.who}
    /\ nameEditable = {}

====
